---- MODULE Spec2Model ----
(***************************************************************************)
(* Model of the string scanner / substitution engine of strings-patcher    *)
(* (src/common.c): search_and_replace, search_and_replace_exact and        *)
(* print_strings, working on one in-memory strings table.                  *)
(*                                                                         *)
(* A buffer is a sequence of bytes; the C code indexes from 0, so At(d, k) *)
(* reads d[k+1].  A call of one of the three functions is one action; the   *)
(* iterations of its loop are the steps of a recursive operator.           *)
(***************************************************************************)
EXTENDS Integers, Sequences, FiniteSets, TLC

(* ---------------------------------------------------------------------- *)
(* Bounds                                                                  *)
(* ---------------------------------------------------------------------- *)
MaxLen == 5        \* length of the strings tables explored
MaxSearch == 2     \* longest search pattern
MaxReplace == 3    \* longest replacement

\* Byte values: the terminator 0 and two distinct characters.  The scanners
\* only compare a byte with zero and with a byte of the pattern, so two
\* characters give every outcome of a comparison within a pattern and a run.
Char == {1, 2}
Byte == {0} \cup Char

SeqsUpTo(S, lo, hi) == UNION {[1..n -> S] : n \in lo..hi}

\* A shorter table behaves as the table of length MaxLen that starts with
\* zero bytes, which both scanners skip
Buffers == [1..MaxLen -> Byte]
SearchStrings == SeqsUpTo(Char, 1, MaxSearch)
ReplaceStrings == SeqsUpTo(Char, 0, MaxReplace)
OffsetStarts == {0, 16}

VARIABLES
    pc,            \* "start" before the call, "done" after it returned
    fn,            \* the function that was called
    orig,          \* the strings table as it was handed to the call
    data,          \* char *data, len = Len(data)
    search,        \* const char *search (without its terminator)
    replace,       \* const char *replace (without its terminator)
    ret,           \* the value returned
    events,        \* the matches handled by the call, in order
    offset_start,  \* argument of print_strings
    out            \* lines printed by print_strings

\* The run of the tool on a file (main, elf_process, pe_process)
VARIABLES
    argv,          \* what main took from the command line
    disk,          \* the input file as it was before the run
    fileIn,        \* FILE *fileIn: bytes of the input file, position, offsets written
    fileOut,       \* FILE *fileOut: NULL, or the bytes of the output file
    fmt,           \* "elf" or "pe" once main has dispatched on the magic number
    loc,           \* sectionStringsAddress, sectionStringsLen and attrs.class
    heap,          \* malloc/free history of strtab and shstrtab
    code,          \* exit code of main, -1 while the tool runs
    site,          \* the return statement that ended the run
    steps,         \* the steps of the run executed so far, in order
    lookup,        \* the section name lookups of elf_find_strings_section
    prev           \* <<site, code>> of the previous run of the tool

fileVars == <<argv, disk, fileIn, fileOut, fmt, loc, heap, code, site, steps,
              lookup, prev>>

vars == <<pc, fn, orig, data, search, replace, ret, events, offset_start, out,
          fileVars>>

(* ---------------------------------------------------------------------- *)
(* C memory helpers                                                        *)
(* ---------------------------------------------------------------------- *)
At(d, k) == d[k + 1]

\* s[k] of a C string: the stored characters, then the terminating zero
CStr(str, k) == IF k < Len(str) THEN str[k + 1] ELSE 0

\* &d[k] seen as an array of Len(d) - k bytes
From(d, k) == SubSeq(d, k + 1, Len(d))

\* memcpy(&d[k], src, Len(src))
MemCpy(d, k, src) ==
    [x \in 1..Len(d) |-> IF x - 1 >= k /\ x - 1 < k + Len(src)
                         THEN src[x - k] ELSE d[x]]

\* memset(&d[k], 0, n)
MemZero(d, k, n) ==
    [x \in 1..Len(d) |-> IF x - 1 >= k /\ x - 1 < k + n THEN 0 ELSE d[x]]

NULL == [null |-> TRUE, mem |-> <<>>]
Block(m) == [null |-> FALSE, mem |-> m]

(* ---------------------------------------------------------------------- *)
(* count_occurrences                                                       *)
(* ---------------------------------------------------------------------- *)
RECURSIVE count_loop(_, _, _, _, _, _, _)
count_loop(str, word, wordLen, len, strLen, cc, count) ==
    IF strLen >= len THEN [count |-> count, strLen |-> strLen]
    ELSE IF At(str, strLen) = 0 THEN [count |-> count, strLen |-> strLen]
    ELSE LET c1 == IF At(str, strLen) = CStr(word, cc) THEN cc + 1 ELSE 0
             hit == c1 >= wordLen
         IN count_loop(str, word, wordLen, len, strLen + 1,
                       IF hit THEN 0 ELSE c1,
                       IF hit THEN count + 1 ELSE count)

count_occurrences(str, word, wordLen, len) ==
    count_loop(str, word, wordLen, len, 0, 0, 0)

(* ---------------------------------------------------------------------- *)
(* available_length                                                        *)
(* ---------------------------------------------------------------------- *)
\* variant that also hands out the zero byte in front of the next string
RECURSIVE available_loop_NoTerminator(_, _, _, _)
available_loop_NoTerminator(str, len, k, lc) ==
    IF k >= len THEN len - 1
    ELSE IF At(str, k) # 0 /\ lc = 0 THEN k
    ELSE available_loop_NoTerminator(str, len, k + 1, At(str, k))

available_length_NoTerminator(str, len) ==
    available_loop_NoTerminator(str, len, 0, 1)

RECURSIVE available_loop(_, _, _, _)
available_loop(str, len, k, lc) ==
    IF k >= len THEN len - 1
    ELSE IF At(str, k) # 0 /\ lc = 0 THEN k - 1
    ELSE available_loop(str, len, k + 1, At(str, k))

available_length(str, len) == available_loop(str, len, 0, 1)

(* ---------------------------------------------------------------------- *)
(* string_substitute: the bytes it stores to output[0 .. j)                *)
(* ---------------------------------------------------------------------- *)
RECURSIVE subst_loop(_, _, _, _, _, _, _, _, _)
subst_loop(input, srch, repl, searchLen, replaceLen, inputLen, k, cc, o) ==
    IF k >= inputLen THEN o
    ELSE
        LET matched == At(input, k) = CStr(srch, cc)
            c1 == cc + 1
            \* else branch: memcpy(&output[j], &input[i] - (c-1), c)
            o1 == IF matched THEN o
                  ELSE o \o SubSeq(input, k - (c1 - 1) + 1, k + 1)
            c2 == IF matched THEN c1 ELSE 0
            hit == c2 >= searchLen
            o2 == IF hit THEN o1 \o SubSeq(repl, 1, replaceLen) ELSE o1
        IN subst_loop(input, srch, repl, searchLen, replaceLen, inputLen,
                      k + 1, IF hit THEN 0 ELSE c2, o2)

string_substitute(input, srch, repl, searchLen, replaceLen, inputLen) ==
    subst_loop(input, srch, repl, searchLen, replaceLen, inputLen, 0, 0, <<>>)

(* ---------------------------------------------------------------------- *)
(* search_and_replace (substring mode)                                     *)
(*                                                                         *)
(* The locals of a running call are a record st: data, i, c, offset,      *)
(* state, ret, buffer, events.  An iteration maps st to the set of records *)
(* it can produce (more than one where the heap decides).                  *)
(* ---------------------------------------------------------------------- *)
Locals(d) ==
    [data |-> d, i |-> 0, c |-> 0, offset |-> 0, state |-> 0, ret |-> 1,
     buffer |-> NULL, events |-> <<>>]

Event(off, k, avail, kind) ==
    [offset |-> off, at |-> k, available |-> avail, kind |-> kind]

\* if (c >= searchLen)
SubstringMatchFound(cc, searchLen) == cc >= searchLen

\* newLen = curLen + count * (replaceLen - searchLen); the size_t product
\* wraps when replaceLen < searchLen but the sum does not, since
\* count * searchLen <= curLen
NewLength(curLen, count, replaceLen, searchLen) ==
    curLen + count * (replaceLen - searchLen)

\* if (newLen > available)
DoesNotFit(newLen, available) == newLen > available

\* Bytes buffer[j .. n) after malloc(n) / realloc(buffer, n) and a
\* string_substitute that stored only j bytes: what realloc kept of the old
\* block, otherwise indeterminate
HeapTails(old, j, n) ==
    {t \in [1..(n - j) -> Byte] :
        \A x \in 1..(n - j) :
            (~old.null /\ j + x <= Len(old.mem)) => t[x] = old.mem[j + x]}

\* the body of `if (c >= searchLen) { ... }`
sr_match(st, off, srch, repl) ==
    LET searchLen == Len(srch)
        replaceLen == Len(repl)
        len == Len(st.data)
        co == count_occurrences(From(st.data, off), srch, searchLen, len - off)
        curLen == co.strLen
        newLen == NewLength(curLen, co.count, replaceLen, searchLen)
        available == available_length(From(st.data, off), len - off)
        found == [st EXCEPT !.c = 0, !.state = 1, !.offset = off,
                            !.i = st.i + 1]
        stored == string_substitute(From(st.data, off), srch, repl,
                                    searchLen, replaceLen, curLen)
    IN  IF DoesNotFit(newLen, available)
        THEN {[found EXCEPT !.ret = 2,
                 !.events = Append(st.events,
                                   Event(off, st.i, available, "nofit"))]}
        ELSE
          \* realloc(buffer, 0) may free the block and return NULL (as
          \* glibc does): buffer = NULL and continue; malloc(0) returns a
          \* block in the C libraries the program is built against
          (IF newLen = 0 /\ ~st.buffer.null
           THEN {[found EXCEPT !.ret = 0, !.buffer = NULL,
                    !.events = Append(st.events,
                                      Event(off, st.i, available, "nomem"))]}
           ELSE {})
          \cup
          {[found EXCEPT
              !.ret = 0,
              !.buffer = Block(stored \o t),
              !.data = MemZero(MemCpy(st.data, off, stored \o t),
                               off + newLen, available - newLen),
              !.events = Append(st.events,
                                Event(off, st.i, available, "written"))]
           : t \in HeapTails(st.buffer, Len(stored), newLen)}

\* one iteration of `for (i = 0; i < len; i++)`
sr_iter(st, srch, repl) ==
    LET b == At(st.data, st.i) IN
    IF st.state = 0 /\ b = 0
    THEN {[st EXCEPT !.i = st.i + 1]}
    ELSE IF st.state = 1
    THEN {[st EXCEPT !.i = st.i + 1, !.state = IF b = 0 THEN 0 ELSE 1]}
    ELSE LET off1 == IF st.state = 0 THEN st.i ELSE st.offset
             st1 == IF st.state = 0 THEN 2 ELSE IF b = 0 THEN 0 ELSE st.state
             c0 == IF st.state # 0 /\ b = 0 THEN 0 ELSE st.c
             c1 == IF b = CStr(srch, c0) THEN c0 + 1 ELSE 0
         IN  IF SubstringMatchFound(c1, Len(srch))
             THEN sr_match(st, off1, srch, repl)
             ELSE {[st EXCEPT !.i = st.i + 1, !.c = c1, !.state = st1,
                              !.offset = off1]}

RECURSIVE sr_loop(_, _, _)
sr_loop(st, srch, repl) ==
    IF st.i >= Len(st.data) THEN {st}
    ELSE UNION {sr_loop(n, srch, repl) : n \in sr_iter(st, srch, repl)}

search_and_replace ==
    /\ pc = "start"
    /\ \E srch \in SearchStrings, repl \in ReplaceStrings :
          /\ search' = srch
          /\ replace' = repl
          /\ \E fin \in sr_loop(Locals(data), srch, repl) :
                /\ data' = fin.data
                /\ ret' = fin.ret
                /\ events' = fin.events
    /\ fn' = "search_and_replace"
    /\ pc' = "done"
    /\ UNCHANGED <<orig, offset_start, out, fileVars>>

(* ---------------------------------------------------------------------- *)
(* search_and_replace_exact (exact mode)                                   *)
(* ---------------------------------------------------------------------- *)
\* variant that accepts a match before the end of the run
ExactMatchFound_Prefix(cc, searchLen, b) == cc >= searchLen

\* if (c > searchLen && data[i] == 0)
ExactMatchFound(cc, searchLen, b) == cc > searchLen /\ b = 0

\* the body of `if (c > searchLen && data[i] == 0) { ... }`
sre_match(st, off, repl) ==
    LET replaceLen == Len(repl)
        len == Len(st.data)
        available == available_length(From(st.data, off), len - off)
        found == [st EXCEPT !.c = 0, !.state = 0, !.offset = off,
                            !.i = st.i + 1]
    IN  IF DoesNotFit(replaceLen, available)
        THEN [found EXCEPT !.ret = 2,
                !.events = Append(st.events,
                                  Event(off, st.i, available, "nofit"))]
        ELSE [found EXCEPT
                !.ret = 0,
                !.data = MemZero(MemCpy(st.data, off, repl),
                                 off + replaceLen, available - replaceLen),
                !.events = Append(st.events,
                                  Event(off, st.i, available, "written"))]

\* one iteration of `for (i = 0; i < len; i++)`
sre_iter(st, srch, repl) ==
    LET b == At(st.data, st.i) IN
    IF st.state = 0 /\ b = 0
    THEN [st EXCEPT !.i = st.i + 1]
    ELSE IF st.state = 1
    THEN [st EXCEPT !.i = st.i + 1, !.state = IF b = 0 THEN 0 ELSE 1]
    ELSE LET off1 == IF st.state = 0 THEN st.i ELSE st.offset
             st1 == IF st.state = 0 THEN 2 ELSE st.state
             same == b = CStr(srch, st.c)
             c1 == IF same THEN st.c + 1 ELSE 0
             st2 == IF same THEN st1 ELSE 1
         IN  IF ExactMatchFound(c1, Len(srch), b)
             THEN sre_match(st, off1, repl)
             ELSE [st EXCEPT !.i = st.i + 1, !.c = c1, !.state = st2,
                             !.offset = off1]

RECURSIVE sre_loop(_, _, _)
sre_loop(st, srch, repl) ==
    IF st.i >= Len(st.data) THEN st
    ELSE sre_loop(sre_iter(st, srch, repl), srch, repl)

search_and_replace_exact ==
    /\ pc = "start"
    /\ \E srch \in SearchStrings, repl \in ReplaceStrings :
          /\ search' = srch
          /\ replace' = repl
          /\ LET fin == sre_loop(Locals(data), srch, repl) IN
                /\ data' = fin.data
                /\ ret' = fin.ret
                /\ events' = fin.events
    /\ fn' = "search_and_replace_exact"
    /\ pc' = "done"
    /\ UNCHANGED <<orig, offset_start, out, fileVars>>

(* ---------------------------------------------------------------------- *)
(* print_strings                                                           *)
(* ---------------------------------------------------------------------- *)
\* printf("%08X:%.*s\n", offset_start + i - l, l, s): %.*s prints at most ll
\* bytes of the string at p, stopping at a zero; the offsets explored are far
\* below the 32 bits that %X prints
RECURSIVE PrintfText(_, _, _)
PrintfText(d, p, ll) ==
    IF ll = 0 \/ p >= Len(d) \/ At(d, p) = 0 THEN <<>>
    ELSE <<At(d, p)>> \o PrintfText(d, p + 1, ll - 1)

PrintfLine(d, os, k, ll, p) ==
    [offset |-> os + k - ll, text |-> PrintfText(d, p, ll)]

\* the locals of print_strings: i, l, s (-1 is NULL) and what was printed
RECURSIVE ps_loop(_, _, _, _, _, _)
ps_loop(d, os, k, ll, p, printed) ==
    IF k >= Len(d) THEN printed
    ELSE IF At(d, k) = 0
    THEN IF ll > 0
         THEN ps_loop(d, os, k + 1, 0, -1,
                      Append(printed, PrintfLine(d, os, k, ll, p)))
         ELSE ps_loop(d, os, k + 1, ll, p, printed)
    ELSE ps_loop(d, os, k + 1, ll + 1, IF p = -1 THEN k ELSE p, printed)

print_strings ==
    /\ pc = "start"
    /\ \E os \in OffsetStarts :
          /\ offset_start' = os
          /\ out' = ps_loop(data, os, 0, 0, -1, <<>>)
    /\ fn' = "print_strings"
    /\ pc' = "done"
    /\ UNCHANGED <<orig, data, search, replace, ret, events, fileVars>>

(* ---------------------------------------------------------------------- *)
(* Specification                                                           *)
(* ---------------------------------------------------------------------- *)
\* a stream that is not open, the locals of a process function before its
\* first statement, and a run of the tool that has not begun
NoStream == [bytes |-> <<>>, pos |-> 0, wrote |-> {}]
NoArgs == [filename |-> FALSE, replace |-> FALSE, output |-> "none",
           exact |-> 0]
NoSection == [class |-> 0, address |-> 0, length |-> 0]
NoHeap == [strtab |-> "null", shstrtab |-> "null", freed |-> 0]

NoRun ==
    /\ argv = NoArgs
    /\ disk = <<>>
    /\ fileIn = NoStream
    /\ fileOut = NULL
    /\ fmt = "none"
    /\ loc = NoSection
    /\ heap = NoHeap
    /\ code = -1
    /\ site = "none"
    /\ steps = <<>>
    /\ lookup = <<>>
    /\ prev = <<>>

Init ==
    /\ pc = "start"
    /\ fn = "none"
    /\ data \in Buffers
    /\ orig = data
    /\ search = <<>>
    /\ replace = <<>>
    /\ ret = 1
    /\ events = <<>>
    /\ offset_start = 0
    /\ out = <<>>
    /\ NoRun

Next ==
    \/ search_and_replace
    \/ search_and_replace_exact
    \/ print_strings

Spec == Init /\ [][Next]_vars

TypeOK ==
    /\ pc \in {"start", "done"}
    /\ Len(data) = Len(orig)
    /\ ret \in {0, 1, 2}

(* ---------------------------------------------------------------------- *)
(* Vocabulary of the properties                                            *)
(* ---------------------------------------------------------------------- *)
Substitution == {"search_and_replace", "search_and_replace_exact"}
Returned(f) == pc = "done" /\ fn = f
ReturnedSubstitution == pc = "done" /\ fn \in Substitution

\* offsets at which a StringRun (a maximal span of non-zero bytes) starts
Runs(d) ==
    {o \in 0..(Len(d) - 1) : At(d, o) # 0 /\ (o = 0 \/ At(d, o - 1) = 0)}

\* printable length: the bytes from offset o up to the first zero byte
RECURSIVE StrLen(_, _)
StrLen(d, o) ==
    IF o >= Len(d) \/ At(d, o) = 0 THEN 0 ELSE 1 + StrLen(d, o + 1)

StrAt(d, o) == SubSeq(d, o + 1, o + StrLen(d, o))

\* the string at o is followed by a zero byte
Terminated(d, o) == o + StrLen(d, o) < Len(d)

\* the room of the run at o: the bytes from o up to, not including, the zero
\* byte in front of the next run, or the last byte of the table when no run
\* follows
Room(d, o) ==
    LET later == {r \in Runs(d) : r > o}
    IN  IF later = {} THEN Len(d) - 1 - o
        ELSE (CHOOSE r \in later : \A q \in later : r <= q) - 1 - o

\* srch is a contiguous substring of t
Occurs(srch, t) ==
    \E k \in 0..(Len(t) - Len(srch)) : SubSeq(t, k + 1, k + Len(srch)) = srch

\* t with each left-to-right non-overlapping occurrence of srch replaced
RECURSIVE Substituted(_, _, _)
Substituted(t, srch, repl) ==
    IF Len(t) < Len(srch) THEN t
    ELSE IF SubSeq(t, 1, Len(srch)) = srch
    THEN repl \o Substituted(SubSeq(t, Len(srch) + 1, Len(t)), srch, repl)
    ELSE <<t[1]>> \o Substituted(Tail(t), srch, repl)

SameBytes(d, e, lo, hi) == \A k \in lo..(hi - 1) : At(d, k) = At(e, k)
ZeroBytes(d, lo, hi) == \A k \in lo..(hi - 1) : At(d, k) = 0

\* indices stored to by the memcpy/memset of the matches handled
Written ==
    UNION {e.offset..(e.offset + e.available - 1) :
           e \in {events[k] : k \in {x \in 1..Len(events) :
                                        events[x].kind = "written"}}}

NoFit == {events[k].offset : k \in {x \in 1..Len(events) :
                                        events[x].kind = "nofit"}}

\* [offset, offset + available) of the runs of the table that contain search
MatchRegion ==
    UNION {o..(o + Room(orig, o) - 1) :
           o \in {r \in Runs(orig) : Occurs(search, StrAt(orig, r))}}

(* ---------------------------------------------------------------------- *)
(* Properties                                                              *)
(* ---------------------------------------------------------------------- *)

\* C1: no string ever grows: after either substitution, the string at every
\* offset where a string started before the call is no longer than it was.
C1_NoStringGrows ==
    ReturnedSubstitution =>
        \A o \in Runs(orig) : StrLen(data, o) <= StrLen(orig, o)

\* C2: substring mode rewrites every run that contains search and whose
\* result fits: the run becomes the original text with each left-to-right
\* non-overlapping occurrence replaced, the rest of its room is zero, and
\* the result is Replaced (0).
C2_SubstringRewrite ==
    Returned("search_and_replace") =>
        \A o \in Runs(orig) :
            LET t == StrAt(orig, o)
                u == Substituted(t, search, replace)
            IN  (Occurs(search, t) /\ Len(u) <= Room(orig, o)) =>
                    /\ SubSeq(data, o + 1, o + Len(u)) = u
                    /\ ZeroBytes(data, o + Len(u), o + Room(orig, o))
                    /\ ret = 0

\* C3: substring mode returns NotFound (1) exactly when no run contains
\* search, and then the table is unchanged.
C3_NotFoundIffAbsent ==
    Returned("search_and_replace") =>
        /\ (ret = 1) <=>
               (\A o \in Runs(orig) : ~Occurs(search, StrAt(orig, o)))
        /\ (ret = 1) => data = orig

\* C4: exact mode overwrites every run equal to search and followed by a
\* zero byte with replace, zero-padded to its room, whenever replace fits,
\* whatever the runs before it; the result is then Replaced (0).
C4_ExactRewrite ==
    Returned("search_and_replace_exact") =>
        \A o \in Runs(orig) :
            (/\ StrAt(orig, o) = search
             /\ Terminated(orig, o)
             /\ Len(replace) <= Room(orig, o)) =>
                /\ SubSeq(data, o + 1, o + Len(replace)) = replace
                /\ ZeroBytes(data, o + Len(replace), o + Room(orig, o))
                /\ ret = 0

\* C5: exact mode never changes a byte of a run that is not equal to search,
\* in particular of a run that only contains search.
C5_ExactPrecision ==
    Returned("search_and_replace_exact") =>
        \A o \in Runs(orig) :
            StrAt(orig, o) # search =>
                SameBytes(data, orig, o, o + StrLen(orig, o))

C5_Witness ==
    /\ Returned("search_and_replace_exact")
    /\ data # orig
    /\ \E o \in Runs(orig) :
          /\ StrAt(orig, o) # search
          /\ Occurs(search, StrAt(orig, o))

\* C6: whenever the replacement of a matched run does not fit, that run is
\* left byte-identical and the result is ReplacementDoesNotFit (2), also when
\* other runs were replaced before or after it.
C6_DoesNotFitReported ==
    ReturnedSubstitution =>
        \A o \in NoFit \cap Runs(orig) :
            /\ SameBytes(data, orig, o, o + StrLen(orig, o))
            /\ ret = 2

\* C7: both substitutions keep the length of the table, store only inside
\* the table and only inside [offset, offset + available) of a run that
\* contains search, and leave every run without search byte-identical.
C7_Frame ==
    ReturnedSubstitution =>
        /\ Len(data) = Len(orig)
        /\ Written \subseteq 0..(Len(orig) - 1)
        /\ Written \subseteq MatchRegion
        /\ \A k \in 0..(Len(orig) - 1) :
              At(data, k) # At(orig, k) => k \in MatchRegion
        /\ \A o \in Runs(orig) :
              ~Occurs(search, StrAt(orig, o)) =>
                  SameBytes(data, orig, o, o + StrLen(orig, o))

C7_Witness ==
    /\ ReturnedSubstitution
    /\ Written # {}
    /\ data # orig
    /\ \E o \in Runs(orig) : ~Occurs(search, StrAt(orig, o))

\* C8: idempotence: either substitution with replace equal to search leaves
\* the table byte-for-byte identical.
C8_Idempotence ==
    (ReturnedSubstitution /\ replace = search) => data = orig

\* C9: round trip: when search is a whole run at offset o and replace is not
\* longer than search, substring mode returns Replaced and the table then
\* holds a string equal to replace at o, its length unchanged.
C9_RoundTrip ==
    (/\ Returned("search_and_replace")
     /\ replace # <<>>
     /\ Len(replace) <= Len(search)) =>
        \A o \in Runs(orig) :
            StrAt(orig, o) = search =>
                /\ ret = 0
                /\ o \in Runs(data)
                /\ StrAt(data, o) = replace
                /\ Len(data) = Len(orig)

\* C10: print_strings emits one entry per run of the table, a last run that
\* reaches the end of the table included, in ascending order, each with the
\* offset offset_start + (index of its first byte) and the text of the run.
C10_EnumerationComplete ==
    Returned("print_strings") =>
        /\ Len(out) = Cardinality(Runs(data))
        /\ \A k \in 1..Len(out) :
              /\ (out[k].offset - offset_start) \in Runs(data)
              /\ out[k].text = StrAt(data, out[k].offset - offset_start)
        /\ \A k, m \in 1..Len(out) : k < m => out[k].offset < out[m].offset

\* C18: in exact mode a matched run is replaced at most once: no match is
\* handled at an offset that lies inside the bytes an earlier replacement of
\* the same call stored, also when replace is longer than search.
C18_ReplacedOnce ==
    Returned("search_and_replace_exact") =>
        \A j, k \in 1..Len(events) :
            (j < k /\ events[j].kind = "written") =>
                events[k].offset \notin
                    events[j].offset..(events[j].offset + events[j].available - 1)

\* C19: substitution never creates a string: every offset where a run starts
\* afterwards is one where a run started before, and the room computed for a
\* matched run is never smaller than the printable length of that run.
C19_NoNewString ==
    ReturnedSubstitution =>
        /\ Runs(data) \subseteq Runs(orig)
        /\ events # <<>> =>
              events[1].available >= StrLen(orig, events[1].offset)

(* ====================================================================== *)
(* The run of the tool on a file: main (src/README.md), elf_process        *)
(* (src/unnamed/part_000) and pe_process (src/pefile.c)                     *)
(*                                                                         *)
(* A file is the sequence of its bytes.  The locals of a running function  *)
(* are a record io: the input stream (bytes, pos, wrote), the bytes of the *)
(* output stream (out), the result of the last library call (ok, buf) and  *)
(* fuel, the number of library calls that still succeed before one fails   *)
(* for a reason outside the file (-1: none does).                          *)
(* ====================================================================== *)
MaxCalls == 24     \* library calls of one step before the injected failure
Huge == 1048576    \* every offset or size from here on counts as this one
ChunkSize == 1024  \* char buffer[1024]

Sat(v) == IF v >= Huge THEN Huge ELSE v
SatMul(a, b) == IF a >= ChunkSize /\ b >= ChunkSize THEN Huge ELSE Sat(a * b)
Max(a, b) == IF a >= b THEN a ELSE b
Zeros(n) == [x \in 1..n |-> 0]
Reverse(bs) == [x \in 1..Len(bs) |-> bs[Len(bs) + 1 - x]]

\* the unsigned value of an object whose bytes in memory are bs (the host is
\* little-endian)
RECURSIVE Val(_)
Val(bs) == IF bs = <<>> THEN 0 ELSE Sat(bs[1] + 256 * Val(Tail(bs)))

Call(stream, o, fuel) ==
    [bytes |-> stream.bytes, pos |-> stream.pos, wrote |-> stream.wrote,
     out |-> o, fuel |-> fuel, ok |-> TRUE, buf |-> <<>>]

Faulty(io) == io.fuel = 0
Called(io) == IF io.fuel > 0 THEN io.fuel - 1 ELSE -1

\* fseek(in, off, SEEK_SET): a negative offset is refused
fseek_set(io, off) ==
    LET good == ~Faulty(io) /\ off >= 0 IN
    [io EXCEPT !.fuel = Called(io), !.ok = good,
               !.pos = IF good THEN Sat(off) ELSE io.pos]

\* fseek(in, off, SEEK_CUR)
fseek_cur(io, off) ==
    LET good == ~Faulty(io) /\ io.pos + off >= 0 IN
    [io EXCEPT !.fuel = Called(io), !.ok = good,
               !.pos = IF good THEN Sat(io.pos + off) ELSE io.pos]

\* fread(ptr, size, 1, in) == 1: one item of size bytes.  No item is read
\* when size is 0 or when fewer than size bytes are left, and a short read
\* leaves the stream at the end of the file
fread(io, size) ==
    LET good == ~Faulty(io) /\ size > 0 /\ io.pos + size <= Len(io.bytes) IN
    [io EXCEPT !.fuel = Called(io), !.ok = good,
               !.buf = IF good THEN SubSeq(io.bytes, io.pos + 1, io.pos + size)
                       ELSE <<>>,
               !.pos = IF good THEN io.pos + size
                       ELSE IF Faulty(io) \/ size = 0 THEN io.pos
                       ELSE Max(io.pos, Len(io.bytes))]

\* fwrite(ptr, size, 1, out) == 1, the output stream being written in order
fwrite_out(io, bs) ==
    LET good == ~Faulty(io) /\ Len(bs) > 0 IN
    [io EXCEPT !.fuel = Called(io), !.ok = good,
               !.out = IF good THEN io.out \o bs ELSE io.out]

\* variant for a stream opened in append mode: every write goes to the end
fwrite_in_Append(io, bs) ==
    LET good == ~Faulty(io) /\ Len(bs) > 0 IN
    [io EXCEPT !.fuel = Called(io), !.ok = good,
               !.bytes = IF good THEN io.bytes \o bs ELSE io.bytes,
               !.wrote = IF good
                         THEN io.wrote \cup
                              (Len(io.bytes)..(Len(io.bytes) + Len(bs) - 1))
                         ELSE io.wrote,
               !.pos = IF good THEN Len(io.bytes) + Len(bs) ELSE io.pos]

\* fwrite(ptr, size, 1, in) == 1 on the input stream opened "rb+"
fwrite_in(io, bs) ==
    LET good == ~Faulty(io) /\ Len(bs) > 0
        end == Max(Len(io.bytes), io.pos + Len(bs))
    IN  [io EXCEPT !.fuel = Called(io), !.ok = good,
           !.bytes = IF good
                     THEN [x \in 1..end |->
                             IF x > io.pos /\ x <= io.pos + Len(bs)
                             THEN bs[x - io.pos]
                             ELSE IF x <= Len(io.bytes) THEN io.bytes[x] ELSE 0]
                     ELSE io.bytes,
           !.wrote = IF good
                     THEN io.wrote \cup (io.pos..(io.pos + Len(bs) - 1))
                     ELSE io.wrote,
           !.pos = IF good THEN io.pos + Len(bs) ELSE io.pos]

(* ---------------------------------------------------------------------- *)
(* write_input_to_output_until, write_input_to_output_end                  *)
(* ---------------------------------------------------------------------- *)
\* fread(buffer, n, 1, in) then fwrite(buffer, n, 1, out)
copy_chunk(io, n) ==
    LET r == fread(io, n) IN IF ~r.ok THEN r ELSE fwrite_out(r, r.buf)

\* while (i + 1024 < offset) { ... i += 1024; } l = offset - i; ...
RECURSIVE copy_loop(_, _, _)
copy_loop(io, i, offset) ==
    IF i + ChunkSize < offset
    THEN LET c == copy_chunk(io, ChunkSize) IN
         IF ~c.ok THEN c ELSE copy_loop(c, i + ChunkSize, offset)
    ELSE copy_chunk(io, offset - i)

\* returns io with ok = the value returned (1 or 0)
write_input_to_output_until(io, offset) == copy_loop(io, 0, offset)

\* i = ftell(in); fseek(in, 0, SEEK_END); end = ftell(in); fseek(in, i, SEEK_SET)
write_input_to_output_end(io) == copy_loop(io, io.pos, Len(io.bytes))

(* ---------------------------------------------------------------------- *)
(* ELF words (src/unnamed/part_000)                                        *)
(*                                                                         *)
(* A Word is the 8 bytes of the union in memory: e32 is bytes 1..4, e64    *)
(* all of them.  The build modelled is the little-endian one.              *)
(* ---------------------------------------------------------------------- *)
swap_data_16(endianness, d) == IF endianness = 2 THEN Reverse(d) ELSE d
swap_data_32(endianness, d) == IF endianness = 2 THEN Reverse(d) ELSE d
swap_data_64(endianness, d) == IF endianness = 2 THEN Reverse(d) ELSE d

swap_data_word(endianness, class, w) ==
    IF class = 1
    THEN swap_data_32(endianness, SubSeq(w, 1, 4)) \o SubSeq(w, 5, 8)
    ELSE swap_data_64(endianness, w)

\* (long)w.e32 or (long)w.e64: -1 stands for every negative long
word_to_long(class, w) ==
    IF class = 1 THEN Val(SubSeq(w, 1, 4))
    ELSE IF w[8] >= 128 THEN -1 ELSE Val(w)

\* The test of read_word is on the local r, which is never assigned: the
\* call reads either member, whatever class is
WordSizes == {4, 8}

\* what an object that was never assigned may hold in its upper half
Indeterminate == {<<0, 0, 0, 0>>, <<1, 0, 0, 0>>, <<0, 0, 0, 128>>}

\* read_word(f, ptr, class) reading size bytes; buf is *ptr afterwards
read_word(io, w, class, size) ==
    LET r == fread(io, size) IN
    [r EXCEPT !.buf = IF r.ok THEN r.buf \o SubSeq(w, size + 1, 8) ELSE w]

advance_and_read(io, size, offset) ==
    LET s == fseek_cur(io, offset) IN IF ~s.ok THEN s ELSE fread(s, size)

advance_and_read_word(io, w, class, offset, size) ==
    LET s == fseek_cur(io, offset) IN
    IF ~s.ok THEN [s EXCEPT !.buf = w] ELSE read_word(s, w, class, size)

\* malloc(n): the size_t of a negative long is more than any heap holds
malloc(io, n) ==
    [io EXCEPT !.fuel = Called(io), !.ok = ~Faulty(io) /\ n >= 0]

(* ---------------------------------------------------------------------- *)
(* elf_find_strings_section                                                *)
(*                                                                         *)
(* nv holds the locals.  Each block of the function is an operator that    *)
(* leaves nv alone once the function has returned (nv.done).  ws are the   *)
(* sizes its calls of read_word read, g what its unassigned Words hold and *)
(* beyond what a strcmp that leaves the names table does ("equal",         *)
(* "differ", or "fault" for a trap).                                       *)
(* ---------------------------------------------------------------------- *)
ElfLocals(io, ws, g, beyond) ==
    [io |-> io, ws |-> ws, beyond |-> beyond, done |-> FALSE, ret |-> 0,
     site |-> "none", class |-> 0, endianness |-> 0,
     sectionTableAddress |-> Zeros(4) \o g, sectionTableSize |-> 0,
     sectionTableLen |-> 0, sectionTableNames |-> 0,
     sectionNamesAddress |-> Zeros(4) \o g, sectionNamesLen |-> Zeros(4) \o g,
     sectionStringsAddress |-> Zeros(8), sectionStringsLen |-> Zeros(8),
     sections_addr |-> 0, shstrtab |-> <<>>, heap |-> "null", freed |-> 0,
     lookup |-> <<>>]

\* return r;
Return(nv, io, r, at) ==
    [nv EXCEPT !.io = io, !.done = TRUE, !.ret = r, !.site = at]

\* ret = r; goto RET;  ...  RET: free(shstrtab); return ret;
GotoRET(nv, io, r, at) ==
    [nv EXCEPT !.io = io, !.done = TRUE, !.ret = r, !.site = at,
               !.heap = "freed", !.freed = nv.freed + 1]

\* strcmp(section, &shstrtab[index]) from character k on: "outside" when the
\* comparison is not decided by the bytes of the table
RECURSIVE strcmp_from(_, _, _, _)
strcmp_from(section, tab, index, k) ==
    IF index + k >= Len(tab) THEN "outside"
    ELSE LET b == tab[index + k + 1]
             c == CStr(section, k)
         IN  IF b # c THEN "differ"
             ELSE IF c = 0 THEN "equal"
             ELSE strcmp_from(section, tab, index, k + 1)

elf_read_attrs(nv) ==
    LET r1 == fread(nv.io, 1)
        r2 == fread(r1, 1)
    IN  IF ~r1.ok THEN Return(nv, r1, 5, "header-read")
        ELSE IF ~r2.ok THEN Return(nv, r2, 5, "header-read")
        ELSE [nv EXCEPT !.io = r2, !.class = r1.buf[1],
                        !.endianness = r2.buf[1]]

elf_read_table(nv) ==
    IF nv.done THEN nv ELSE
    LET r1 == advance_and_read_word(nv.io, nv.sectionTableAddress, nv.class,
                  IF nv.class = 1 THEN 26 ELSE 34, nv.ws[1])
        r2 == advance_and_read(r1, 2, 10)
        r3 == fread(r2, 2)
        r4 == fread(r3, 2)
    IN  IF ~r1.ok THEN Return(nv, r1, 5, "header-read")
        ELSE IF ~r2.ok THEN Return(nv, r2, 5, "header-read")
        ELSE IF ~r3.ok THEN Return(nv, r3, 5, "header-read")
        ELSE IF ~r4.ok THEN Return(nv, r4, 5, "header-read")
        ELSE [nv EXCEPT
                !.io = r4,
                !.sectionTableAddress =
                    swap_data_word(nv.endianness, nv.class, r1.buf),
                !.sectionTableSize = Val(swap_data_16(nv.endianness, r2.buf)),
                !.sectionTableLen = Val(swap_data_16(nv.endianness, r3.buf)),
                !.sectionTableNames = Val(swap_data_16(nv.endianness, r4.buf))]

elf_goto_names_header(nv) ==
    IF nv.done THEN nv ELSE
    LET addr == word_to_long(nv.class, nv.sectionTableAddress)
        r1 == fseek_set(nv.io, addr)
        r2 == fseek_cur(r1, SatMul(nv.sectionTableNames, nv.sectionTableSize))
        r3 == advance_and_read_word(r2, nv.sectionNamesAddress, nv.class,
                  IF nv.class = 1 THEN 16 ELSE 24, nv.ws[2])
        r4 == read_word(r3, nv.sectionNamesLen, nv.class, nv.ws[3])
    IN  IF ~r1.ok THEN Return(nv, r1, 6, "section-table-seek")
        ELSE IF ~r2.ok THEN Return(nv, r2, 6, "names-header-seek")
        ELSE IF ~r3.ok THEN Return(nv, r3, 6, "names-header-read")
        ELSE IF ~r4.ok THEN Return(nv, r4, 6, "names-header-read")
        ELSE [nv EXCEPT
                !.io = r4, !.sections_addr = addr,
                !.sectionNamesAddress =
                    swap_data_word(nv.endianness, nv.class, r3.buf),
                !.sectionNamesLen =
                    swap_data_word(nv.endianness, nv.class, r4.buf)]

elf_read_names(nv) ==
    IF nv.done THEN nv ELSE
    LET shstrtab_len == word_to_long(nv.class, nv.sectionNamesLen)
        r1 == fseek_set(nv.io, word_to_long(nv.class, nv.sectionNamesAddress))
        r2 == malloc(r1, shstrtab_len)
        r3 == fread(r2, shstrtab_len)
        r4 == fseek_set(r3, nv.sections_addr)
        held == [nv EXCEPT !.heap = "live"]
    IN  IF ~r1.ok THEN Return(nv, r1, 6, "names-seek")
        ELSE IF ~r2.ok THEN Return(nv, r2, 7, "names-alloc")
        ELSE IF ~r3.ok THEN GotoRET(held, r3, 7, "names-read")
        ELSE IF ~r4.ok THEN GotoRET(held, r4, 6, "section-table-seek")
        ELSE [held EXCEPT !.io = r4, !.shstrtab = r3.buf]

\* the body of `if (strcmp(...) == 0) { ... break; }`
elf_take_section(nv, io) ==
    LET r1 == advance_and_read_word(io, nv.sectionStringsAddress, nv.class,
                  IF nv.class = 1 THEN 12 ELSE 20, nv.ws[4])
        r2 == read_word(r1, nv.sectionStringsLen, nv.class, nv.ws[5])
    IN  IF ~r1.ok THEN GotoRET(nv, r1, 8, "iterate")
        ELSE IF ~r2.ok THEN GotoRET(nv, r2, 8, "iterate")
        ELSE [nv EXCEPT
                !.io = r2,
                !.sectionStringsAddress =
                    swap_data_word(nv.endianness, nv.class, r1.buf),
                !.sectionStringsLen =
                    swap_data_word(nv.endianness, nv.class, r2.buf)]

\* for (i = 0; i < sectionTableLen; i++): the result has done = TRUE when an
\* iteration returned
RECURSIVE elf_sections(_, _, _)
elf_sections(nv, section, i) ==
    IF nv.done \/ i >= nv.sectionTableLen THEN nv
    ELSE
    LET r == fread(nv.io, 4)
        sectionNameIndex == Val(r.buf)
        cmp == strcmp_from(section, nv.shstrtab, sectionNameIndex, 0)
        looked == [nv EXCEPT !.lookup = Append(nv.lookup,
                      [index |-> sectionNameIndex, len |-> Len(nv.shstrtab),
                       inside |-> cmp # "outside"])]
        result == IF cmp = "outside" THEN nv.beyond ELSE cmp
        seen == IF r.ok THEN looked ELSE nv
        next == fseek_cur(r, nv.sectionTableSize - 4)
    IN  IF r.ok /\ result = "fault"
        THEN [looked EXCEPT !.io = r, !.done = TRUE, !.ret = -1,
                            !.site = "fault"]
        ELSE IF r.ok /\ result = "equal"
        THEN elf_take_section(looked, r)
        ELSE IF ~next.ok THEN GotoRET(seen, next, 8, "iterate")
        ELSE IF next.fuel = -1 /\ next.pos >= Len(next.bytes)
                /\ nv.sectionTableSize >= 4
        THEN \* every later fread meets the end of the file
             [seen EXCEPT !.io = next]
        ELSE elf_sections([seen EXCEPT !.io = next], section, i + 1)

elf_finish(nv) ==
    IF nv.done THEN nv
    ELSE IF Val(nv.sectionStringsAddress) = 0
    THEN GotoRET(nv, nv.io, 9, "section-not-found")
    ELSE GotoRET(nv, nv.io, 0, "none")

elf_find_strings_section(io, section, ws, g, beyond) ==
    elf_finish(elf_sections(elf_read_names(elf_goto_names_header(
        elf_read_table(elf_read_attrs(ElfLocals(io, ws, g, beyond))))),
        section, 0))

(* ---------------------------------------------------------------------- *)
(* pe_find_strings_section (src/pefile.c)                                  *)
(* ---------------------------------------------------------------------- *)
PeLocals(io) ==
    [io |-> io, done |-> FALSE, ret |-> 0, site |-> "none",
     headerLocation |-> 0, sectionNums |-> 0, optionalHeaderSize |-> 0,
     sectionStringsAddress |-> 0, sectionStringsLen |-> 0]

\* strncmp(s1, s2, n) == 0 from character k on, s1 and s2 given without
\* their terminators; s2 holds at least n bytes or ends before
RECURSIVE strncmp_equal(_, _, _, _)
strncmp_equal(s1, s2, n, k) ==
    IF k >= n THEN TRUE
    ELSE IF CStr(s1, k) # CStr(s2, k) THEN FALSE
    ELSE IF CStr(s1, k) = 0 THEN TRUE
    ELSE strncmp_equal(s1, s2, n, k + 1)

PE_SIGNATURE == <<80, 69>>     \* "\x50\x45\x00\x00" as a C string

pe_read_header(nv) ==
    LET r1 == fseek_set(nv.io, 60)
        r2 == fread(r1, 4)
        r3 == fseek_set(r2, Val(r2.buf))
        r4 == fread(r3, 4)
        r5 == advance_and_read(r4, 2, 2)
        r6 == advance_and_read(r5, 2, 12)
        r7 == fseek_cur(r6, Val(r6.buf) + 2)
    IN  IF ~r1.ok THEN Return(nv, r1, 5, "header-read")
        ELSE IF ~r2.ok THEN Return(nv, r2, 5, "header-read")
        ELSE IF ~r3.ok THEN Return(nv, r3, 5, "header-read")
        ELSE IF ~r4.ok THEN Return(nv, r4, 5, "header-read")
        ELSE IF ~strncmp_equal(r4.buf, PE_SIGNATURE, 4, 0)
        THEN Return(nv, r4, 4, "bad-signature")
        ELSE IF ~r5.ok THEN Return(nv, r5, 5, "header-read")
        ELSE IF ~r6.ok THEN Return(nv, r6, 5, "header-read")
        ELSE IF ~r7.ok THEN Return(nv, r7, 6, "section-table-seek")
        ELSE [nv EXCEPT !.io = r7, !.headerLocation = Val(r2.buf),
                        !.sectionNums = Val(r5.buf),
                        !.optionalHeaderSize = Val(r6.buf)]

\* the body of `if (strncmp(section, sectionName, 8) == 0) { ... break; }`
pe_take_section(nv, io) ==
    LET r1 == advance_and_read(io, 4, 8)
        r2 == fread(r1, 4)
    IN  IF ~r1.ok THEN Return(nv, r1, 8, "iterate")
        ELSE IF ~r2.ok
        THEN Return([nv EXCEPT !.sectionStringsLen = Val(r1.buf)], r2, 8,
                    "iterate")
        ELSE [nv EXCEPT !.io = r2, !.sectionStringsLen = Val(r1.buf),
                        !.sectionStringsAddress = Val(r2.buf)]

\* for (i = 0; i < sectionNums; i++)
RECURSIVE pe_sections(_, _, _)
pe_sections(nv, section, i) ==
    IF nv.done \/ i >= nv.sectionNums THEN nv
    ELSE
    LET r == fread(nv.io, 8)
        next == fseek_cur(r, 32)
    IN  IF r.ok /\ strncmp_equal(section, r.buf, 8, 0)
        THEN pe_take_section(nv, r)
        ELSE IF ~next.ok THEN Return(nv, next, 8, "iterate")
        ELSE IF next.fuel = -1 /\ next.pos >= Len(next.bytes)
        THEN \* every later fread meets the end of the file
             [nv EXCEPT !.io = next]
        ELSE pe_sections([nv EXCEPT !.io = next], section, i + 1)

pe_finish(nv) ==
    IF nv.done THEN nv
    ELSE IF nv.sectionStringsAddress = 0
    THEN Return(nv, nv.io, 9, "section-not-found")
    ELSE Return(nv, nv.io, 0, "none")

pe_find_strings_section(io, section) ==
    pe_finish(pe_sections(pe_read_header(PeLocals(io)), section, 0))

(* ---------------------------------------------------------------------- *)
(* The files explored                                                      *)
(*                                                                         *)
(* An ELF image is: header, section header table, names table, padding,   *)
(* the strings section, tail.  Entry 0 of the table is the names table     *)
(* (e_shstrndx = 0); every other entry has the offset and size given for   *)
(* the strings section, under the name index given for it.  A PE image is: *)
(* DOS header, PE header, section table, padding, strings section, tail.   *)
(* ---------------------------------------------------------------------- *)
MAGIC_ELF == <<127, 69, 76, 70>>
MAGIC_PE == <<77, 90>>
RODATA == <<46, 114, 111, 100, 97, 116, 97>>     \* ".rodata"
RDATA == <<46, 114, 100, 97, 116, 97>>           \* ".rdata"
TEXT == <<46, 116>>                              \* ".t"

\* if (section == NULL) section = DEFAULT_SECTION;
DEFAULT_SECTION(format) == IF format = "elf" THEN RODATA ELSE RDATA

\* the names table: "" at 0, ".rodata" at 1, ".t" at 9
NamesTable == <<0>> \o RODATA \o <<0>> \o TEXT \o <<0>>

\* v as an unsigned integer of n bytes, least significant byte first when
\* e = 1 and last when e = 2
Unsigned(v, n, e) ==
    LET le == [k \in 1..n |-> IF k <= 3 THEN (v \div (256 ^ (k - 1))) % 256
                              ELSE 0]
    IN  IF e = 2 THEN Reverse(le) ELSE le

ElfHeaderSize(class) == IF class = 1 THEN 52 ELSE 64
ElfEntrySize(class) == IF class = 1 THEN 40 ELSE 64
ElfWordSize(class) == IF class = 1 THEN 4 ELSE 8

ElfHeader(class, e, shnum) ==
    LET w == ElfWordSize(class)
        h0 == MemCpy(Zeros(ElfHeaderSize(class)), 0, MAGIC_ELF \o <<class, e>>)
        h1 == MemCpy(h0, IF class = 1 THEN 32 ELSE 40,
                     Unsigned(ElfHeaderSize(class), w, e))
        h2 == MemCpy(h1, IF class = 1 THEN 46 ELSE 58,
                     Unsigned(ElfEntrySize(class), 2, e)
                         \o Unsigned(shnum, 2, e) \o Unsigned(0, 2, e))
    IN  h2

ElfEntry(class, e, name, offset, size) ==
    LET w == ElfWordSize(class)
        e0 == MemCpy(Zeros(ElfEntrySize(class)), 0, Unsigned(name, 4, e))
    IN  MemCpy(e0, IF class = 1 THEN 16 ELSE 24,
               Unsigned(offset, w, e) \o Unsigned(size, w, e))

RECURSIVE Concat(_)
Concat(ss) == IF ss = <<>> THEN <<>> ELSE Head(ss) \o Concat(Tail(ss))

ElfImage(class, e, names, pad, body, size, tail) ==
    LET n == Len(names) + 1
        namesAt == ElfHeaderSize(class) + n * ElfEntrySize(class)
        bodyAt == namesAt + Len(NamesTable) + Len(pad)
    IN  ElfHeader(class, e, n)
        \o ElfEntry(class, e, 9, namesAt, Len(NamesTable))
        \o Concat([k \in 1..Len(names) |->
                      ElfEntry(class, e, names[k], bodyAt, size)])
        \o NamesTable \o pad \o body \o tail

PeEntry(name, offset, size) ==
    MemCpy(MemCpy(Zeros(40), 0, name), 16,
           Unsigned(size, 4, 1) \o Unsigned(offset, 4, 1))

PeImage(signature, names, pad, body, size, tail) ==
    LET optional == 4
        tableAt == 64 + 24 + optional
        bodyAt == tableAt + 40 * Len(names) + Len(pad)
        dos == MemCpy(MemCpy(Zeros(64), 0, MAGIC_PE), 60, Unsigned(64, 4, 1))
        pe == MemCpy(MemCpy(MemCpy(Zeros(24 + optional), 0, signature),
                            6, Unsigned(Len(names), 2, 1)),
                     20, Unsigned(optional, 2, 1))
    IN  dos \o pe
        \o Concat([k \in 1..Len(names) |-> PeEntry(names[k], bodyAt, size)])
        \o pad \o body \o tail

\* strings section, padding before it and bytes after it
Body == <<1, 0, 2, 1, 0, 0>>
Pad == <<5, 6>>
Rest == <<7, 8, 9>>
LongPad == [x \in 1..(ChunkSize + 6) |-> 3]
PeName(name) == name \o Zeros(8 - Len(name))

ElfFiles ==
    { ElfImage(2, 1, <<9, 1>>, Pad, Body, Len(Body), Rest),
      ElfImage(1, 1, <<1>>, Pad, Body, Len(Body), Rest),
      ElfImage(2, 2, <<1>>, Pad, Body, Len(Body), Rest),
      ElfImage(1, 2, <<1>>, Pad, Body, Len(Body), Rest),
      ElfImage(2, 1, <<1>>, Pad, Body, Len(Body), <<>>),
      ElfImage(1, 1, <<1>>, LongPad, Body, Len(Body), LongPad),
      ElfImage(2, 1, <<9>>, Pad, Body, Len(Body), Rest),
      ElfImage(2, 1, <<1>>, Pad, Body, 0, Rest),
      ElfImage(1, 1, <<200, 1>>, Pad, Body, Len(Body), Rest),
      SubSeq(ElfImage(2, 1, <<1>>, Pad, Body, Len(Body), Rest), 1, 44) }

PeFiles ==
    { PeImage(<<80, 69, 0, 0>>, <<PeName(TEXT), PeName(RDATA)>>,
              Pad, Body, Len(Body), Rest),
      PeImage(<<80, 69, 0, 0>>, <<PeName(RDATA)>>, Pad, Body, Len(Body), <<>>),
      PeImage(<<80, 69, 0, 0>>, <<PeName(RDATA)>>,
              LongPad, Body, Len(Body), LongPad),
      PeImage(<<80, 70, 0, 0>>, <<PeName(RDATA)>>, Pad, Body, Len(Body), Rest),
      PeImage(<<80, 69, 0, 0>>, <<PeName(TEXT)>>, Pad, Body, Len(Body), Rest),
      PeImage(<<80, 69, 0, 0>>, <<PeName(RDATA)>>, Pad, Body, 0, Rest) }

InputFiles == ElfFiles \cup PeFiles \cup {<<35, 33, 47, 98, 105, 110>>}

(* ---------------------------------------------------------------------- *)
(* main, elf_process, pe_process                                           *)
(*                                                                         *)
(* pc is the place of the run: "main" before the tool starts, "process"    *)
(* inside elf_process / pe_process before the navigator, then "parsed",    *)
(* "prefix", "loaded", "scanned", "written", and "exit" once main has      *)
(* returned code ("fault" when the process was stopped by a trap).  data   *)
(* is strtab; search and replace are the strings of the command line.      *)
(* ---------------------------------------------------------------------- *)
Commands ==
    {c \in [filename : BOOLEAN, replace : BOOLEAN,
            output : {"none", "other", "same"}, exact : {0, 1}] :
        /\ ~c.filename => (~c.replace /\ c.output = "none" /\ c.exact = 0)
        /\ ~c.replace => c.exact = 0}

Fuel == -1..MaxCalls

\* search and replace of the runs on files
Patterns == {<<1>>, <<2, 1>>, <<2, 2>>} \X {<<2>>, <<1, 1>>}

Step(name) == steps' = Append(steps, name)

\* variant that reports the error and does not return
Exit_NoReturn(r, at) ==
    /\ code' = r
    /\ site' = at
    /\ UNCHANGED pc

\* return r from main (after a return of the process function, if any)
Exit(r, at) ==
    /\ code' = r
    /\ site' = at
    /\ pc' = "exit"

Stream(io) == [bytes |-> io.bytes, pos |-> io.pos, wrote |-> io.wrote]

main ==
    /\ pc = "main"
    /\ Step("Start")
    /\ \E failed \in {"none", "input", "output"} :
        LET output == IF argv.replace THEN argv.output ELSE "none"
            magic == SubSeq(disk, 1, 4)
            opened == /\ fileIn' = [bytes |-> disk, pos |-> 4, wrote |-> {}]
                      /\ fileOut' = IF output = "none" THEN NULL
                                    ELSE Block(<<>>)
        IN  IF ~argv.filename
            THEN Exit(12, "no-filename") /\ UNCHANGED <<fileIn, fileOut, fmt>>
            ELSE IF output = "same"
            THEN Exit(12, "path-collision")
                 /\ UNCHANGED <<fileIn, fileOut, fmt>>
            ELSE IF failed = "output" /\ output # "none"
            THEN Exit(3, "open-failed") /\ UNCHANGED <<fileIn, fileOut, fmt>>
            ELSE IF failed = "input"
            THEN /\ Exit(3, "open-failed")
                 /\ fileOut' = IF output = "none" THEN NULL ELSE Block(<<>>)
                 /\ UNCHANGED <<fileIn, fmt>>
            ELSE IF strncmp_equal(magic, MAGIC_ELF, 4, 0)
            THEN opened /\ fmt' = "elf" /\ pc' = "process"
                 /\ UNCHANGED <<code, site>>
            ELSE IF strncmp_equal(magic, MAGIC_PE, 2, 0)
            THEN opened /\ fmt' = "pe" /\ pc' = "process"
                 /\ UNCHANGED <<code, site>>
            ELSE opened /\ Exit(4, "unrecognized-format") /\ UNCHANGED fmt
    /\ UNCHANGED <<fn, orig, data, search, replace, ret, events, offset_start,
                   out, argv, disk, loc, heap, lookup, prev>>

\* what elf_process keeps of a call of elf_find_strings_section
ElfFound(nv) ==
    [pos |-> nv.io.pos, ret |-> nv.ret, site |-> nv.site, class |-> nv.class,
     address |-> word_to_long(nv.class, nv.sectionStringsAddress),
     length |-> word_to_long(nv.class, nv.sectionStringsLen),
     heap |-> nv.heap, freed |-> nv.freed, lookup |-> nv.lookup]

\* every outcome of the call on the stream: what strcmp does outside the
\* names table only matters to a call that has such a lookup
ElfOutcomes(stream, section) ==
    UNION {
        LET nv == ElfFound(elf_find_strings_section(
                      Call(stream, <<>>, c[1]), section, c[2], c[3], "differ"))
        IN  IF \A k \in 1..Len(nv.lookup) : nv.lookup[k].inside THEN {nv}
            ELSE {nv} \cup
                 {ElfFound(elf_find_strings_section(
                      Call(stream, <<>>, c[1]), section, c[2], c[3], beyond)) :
                    beyond \in {"equal", "fault"}} :
        c \in Fuel \X [1..5 -> WordSizes] \X Indeterminate}

\* what pe_process keeps of a call of pe_find_strings_section
PeFound(nv) ==
    [pos |-> nv.io.pos, ret |-> nv.ret, site |-> nv.site, class |-> 0,
     address |-> nv.sectionStringsAddress, length |-> nv.sectionStringsLen,
     heap |-> "null", freed |-> 0, lookup |-> <<>>]

PeOutcomes(stream, section) ==
    {PeFound(pe_find_strings_section(Call(stream, <<>>, fuel), section)) :
        fuel \in Fuel}

\* The outcomes of the navigator on each file explored, the stream being as
\* main leaves it (after the magic number); worked out once per file
Navigated ==
    [f \in InputFiles |->
        LET stream == [bytes |-> f, pos |-> 4, wrote |-> {}] IN
        IF strncmp_equal(SubSeq(f, 1, 4), MAGIC_ELF, 4, 0)
        THEN ElfOutcomes(stream, DEFAULT_SECTION("elf"))
        ELSE PeOutcomes(stream, DEFAULT_SECTION("pe"))]

\* ret = elf_find_strings_section(...) and ret = pe_find_strings_section(...)
find_strings_section ==
    /\ pc = "process"
    /\ Step("HeaderParsed")
    /\ \E nv \in Navigated[disk] :
          /\ fileIn' = [fileIn EXCEPT !.pos = nv.pos]
          /\ lookup' = nv.lookup
          /\ heap' = [heap EXCEPT !.shstrtab = nv.heap, !.freed = nv.freed]
          /\ ret' = IF nv.ret = -1 THEN ret ELSE nv.ret
          /\ loc' = [class |-> nv.class, address |-> nv.address,
                     length |-> nv.length]
          /\ IF nv.ret = -1
             THEN pc' = "fault" /\ site' = nv.site /\ UNCHANGED code
             ELSE IF nv.ret # 0 THEN Exit(nv.ret, nv.site)
             ELSE pc' = "parsed" /\ UNCHANGED <<code, site>>
    /\ UNCHANGED <<fn, orig, data, search, replace, events, offset_start, out,
                   argv, disk, fileOut, fmt, prev>>

\* if (out != NULL) { fseek(in, 0, SEEK_SET); write_input_to_output_until }
copy_prefix ==
    /\ pc = "parsed"
    /\ fileOut # NULL
    /\ Step("PrefixCopied")
    /\ \E fuel \in Fuel :
        LET r1 == fseek_set(Call(fileIn, fileOut.mem, fuel), 0)
            r2 == write_input_to_output_until(r1, loc.address)
            r == IF ~r1.ok THEN r1 ELSE r2
        IN  /\ fileIn' = Stream(r)
            /\ fileOut' = Block(r.out)
            /\ IF ~r.ok THEN Exit(14, "output-write")
               ELSE pc' = "prefix" /\ UNCHANGED <<code, site>>
    /\ UNCHANGED <<fn, orig, data, search, replace, ret, events, offset_start,
                   out, argv, disk, fmt, loc, heap, lookup, prev>>

\* fseek(in, strtab_loc, SEEK_SET); strtab = malloc(strtab_len); fread(strtab)
load_section ==
    /\ \/ pc = "prefix"
       \/ pc = "parsed" /\ fileOut = NULL
    /\ Step("SectionLoaded")
    /\ \E fuel \in Fuel :
        LET r1 == fseek_set(Call(fileIn, <<>>, fuel), loc.address)
            r2 == malloc(r1, loc.length)
            r3 == fread(r2, loc.length)
        IN  IF ~r1.ok
            THEN /\ Exit(10, "strings-seek")
                 /\ fileIn' = Stream(r1)
                 /\ UNCHANGED <<heap, ret, data, orig>>
            ELSE IF ~r2.ok
            THEN /\ Exit(13, "strings-alloc")
                 /\ fileIn' = Stream(r2)
                 /\ UNCHANGED <<heap, ret, data, orig>>
            ELSE IF ~r3.ok
            THEN \* ret = 13; goto RET;
                 /\ Exit(13, "strings-read")
                 /\ fileIn' = Stream(r3)
                 /\ ret' = 13
                 /\ heap' = [heap EXCEPT !.strtab = "freed",
                                         !.freed = heap.freed + 1]
                 /\ UNCHANGED <<data, orig>>
            ELSE /\ pc' = "loaded"
                 /\ fileIn' = Stream(r3)
                 /\ heap' = [heap EXCEPT !.strtab = "live"]
                 /\ data' = r3.buf
                 /\ orig' = r3.buf
                 /\ UNCHANGED <<code, site, ret>>
    /\ UNCHANGED <<fn, search, replace, events, offset_start, out, argv, disk,
                   fileOut, fmt, loc, lookup, prev>>

\* if (exact == 0) ret = search_and_replace(strtab, search, replace, len);
\* else ret = search_and_replace_exact(strtab, search, replace, len);
substitute ==
    /\ pc = "loaded"
    /\ argv.replace
    /\ Step("Substituted")
    /\ \E p \in Patterns :
        /\ search' = p[1]
        /\ replace' = p[2]
        /\ \E fin \in IF argv.exact = 0
                      THEN sr_loop(Locals(data), p[1], p[2])
                      ELSE {sre_loop(Locals(data), p[1], p[2])} :
              /\ data' = fin.data
              /\ ret' = fin.ret
              /\ events' = fin.events
    /\ fn' = IF argv.exact = 0 THEN "search_and_replace"
             ELSE "search_and_replace_exact"
    /\ pc' = "scanned"
    /\ UNCHANGED <<orig, offset_start, out, argv, disk, fileIn, fileOut, fmt,
                   loc, heap, code, site, lookup, prev>>

\* print_strings(strtab, strtab_loc, strtab_len); free(strtab); return ret;
list ==
    /\ pc = "loaded"
    /\ ~argv.replace
    /\ steps' = steps \o <<"Listed", "Done">>
    /\ offset_start' = loc.address
    /\ out' = ps_loop(data, loc.address, 0, 0, -1, <<>>)
    /\ fn' = "print_strings"
    /\ heap' = [heap EXCEPT !.strtab = "freed", !.freed = heap.freed + 1]
    /\ Exit(ret, "none")
    /\ UNCHANGED <<orig, data, search, replace, ret, events, argv, disk,
                   fileIn, fileOut, fmt, loc, lookup, prev>>

\* the writes that follow the scan; every failure returns at once
write_back ==
    /\ pc = "scanned"
    /\ Step("Written")
    /\ \E fuel \in Fuel :
        IF fileOut # NULL
        THEN LET r1 == fwrite_out(Call(fileIn, fileOut.mem, fuel), data)
                 r2 == write_input_to_output_end(r1)
                 r == IF ~r1.ok THEN r1 ELSE r2
             IN  /\ fileIn' = Stream(r)
                 /\ fileOut' = Block(r.out)
                 /\ IF ~r.ok THEN Exit(14, "output-write")
                    ELSE pc' = "written" /\ UNCHANGED <<code, site>>
        ELSE LET r1 == fseek_set(Call(fileIn, <<>>, fuel), loc.address)
                 r2 == fwrite_in(r1, data)
             IN  /\ fileIn' = Stream(IF ~r1.ok THEN r1 ELSE r2)
                 /\ UNCHANGED fileOut
                 /\ IF ~r1.ok THEN Exit(10, "strings-seek")
                    ELSE IF ~r2.ok THEN Exit(15, "input-write")
                    ELSE pc' = "written" /\ UNCHANGED <<code, site>>
    /\ UNCHANGED <<fn, orig, data, search, replace, ret, events, offset_start,
                   out, argv, disk, fmt, loc, heap, lookup, prev>>

\* RET: free(strtab); return ret;
finish ==
    /\ pc = "written"
    /\ Step("Done")
    /\ heap' = [heap EXCEPT !.strtab = "freed", !.freed = heap.freed + 1]
    /\ Exit(ret, "none")
    /\ UNCHANGED <<fn, orig, data, search, replace, ret, events, offset_start,
                   out, argv, disk, fileIn, fileOut, fmt, loc, lookup, prev>>

InitFile ==
    /\ pc = "main"
    /\ fn = "none"
    /\ orig = <<>>
    /\ data = <<>>
    /\ search = <<>>
    /\ replace = <<>>
    /\ ret = 0
    /\ events = <<>>
    /\ offset_start = 0
    /\ out = <<>>
    /\ argv \in Commands
    /\ disk \in InputFiles
    /\ fileIn = NoStream
    /\ fileOut = NULL
    /\ fmt = "none"
    /\ loc = NoSection
    /\ heap = NoHeap
    /\ code = -1
    /\ site = "none"
    /\ steps = <<>>
    /\ lookup = <<>>
    /\ prev = <<>>

NextFile ==
    \/ main
    \/ find_strings_section
    \/ copy_prefix
    \/ load_section
    \/ substitute
    \/ list
    \/ write_back
    \/ finish

SpecFile == InitFile /\ [][NextFile]_vars

(* ---------------------------------------------------------------------- *)
(* The tool run a second time (by the script that branches on its exit    *)
(* code): the outcome of the first run is kept in prev                     *)
(* ---------------------------------------------------------------------- *)
again ==
    /\ pc \in {"exit", "fault"}
    /\ prev = <<>>
    /\ prev' = <<site, code>>
    /\ pc' = "main"
    /\ fn' = "none"
    /\ orig' = <<>>
    /\ data' = <<>>
    /\ search' = <<>>
    /\ replace' = <<>>
    /\ ret' = 0
    /\ events' = <<>>
    /\ offset_start' = 0
    /\ out' = <<>>
    /\ argv' \in Commands
    /\ disk' \in InputFiles
    /\ fileIn' = NoStream
    /\ fileOut' = NULL
    /\ fmt' = "none"
    /\ loc' = NoSection
    /\ heap' = NoHeap
    /\ code' = -1
    /\ site' = "none"
    /\ steps' = <<>>
    /\ lookup' = <<>>

NextRuns == NextFile \/ again

SpecRuns == InitFile /\ [][NextRuns]_vars

(* ---------------------------------------------------------------------- *)
(* read_word on its own: one call on a stream at its beginning, *ptr       *)
(* being all zero before (orig) and data afterwards                        *)
(* ---------------------------------------------------------------------- *)
WordStreams == SeqsUpTo(Char, 3, 8)

read_word_call ==
    /\ pc = "call"
    /\ \E size \in WordSizes :
        \E r \in {read_word(Call(fileIn, <<>>, -1), orig, loc.class, size)} :
            /\ fileIn' = Stream(r)
            /\ data' = r.buf
            /\ ret' = IF r.ok THEN 1 ELSE 0
    /\ fn' = "read_word"
    /\ pc' = "returned"
    /\ UNCHANGED <<orig, search, replace, events, offset_start, out, argv,
                   disk, fileOut, fmt, loc, heap, code, site, steps, lookup,
                   prev>>

InitWord ==
    /\ pc = "call"
    /\ fn = "none"
    /\ orig = Zeros(8)
    /\ data = orig
    /\ search = <<>>
    /\ replace = <<>>
    /\ ret = 0
    /\ events = <<>>
    /\ offset_start = 0
    /\ out = <<>>
    /\ argv = NoArgs
    /\ disk = <<>>
    /\ \E b \in WordStreams : fileIn = [bytes |-> b, pos |-> 0, wrote |-> {}]
    /\ fileOut = NULL
    /\ fmt = "elf"
    /\ \E class \in {1, 2} :
          loc = [class |-> class, address |-> 0, length |-> 0]
    /\ heap = NoHeap
    /\ code = -1
    /\ site = "none"
    /\ steps = <<>>
    /\ lookup = <<>>
    /\ prev = <<>>

NextWord == read_word_call

SpecWord == InitWord /\ [][NextWord]_vars

(* ---------------------------------------------------------------------- *)
(* Vocabulary of the claims about a run on a file                          *)
(* ---------------------------------------------------------------------- *)
\* the byte range [sectionOffset, sectionOffset + sectionLength)
SectionRange == loc.address..(loc.address + loc.length - 1)

\* the original file with the section replaced by strtab as it is now
Patched == SubSeq(disk, 1, loc.address) \o data
           \o SubSeq(disk, loc.address + loc.length + 1, Len(disk))

LastStep == IF steps = <<>> THEN "none" ELSE steps[Len(steps)]
Attempted(name) == \E k \in 1..Len(steps) : steps[k] = name

(* ---------------------------------------------------------------------- *)
(* Properties of a run on a file                                           *)
(* ---------------------------------------------------------------------- *)
\* C13: whenever elf_find_strings_section or pe_find_strings_section has
\* returned success (0), the offset it reports is > 0 and the length it
\* reports is > 0.
C13_SectionLocation ==
    pc = "parsed" => (loc.address > 0 /\ loc.length > 0)

\* C15: the transfers report success whenever every byte was transferred,
\* also when no byte is left after the section: a separate-output run whose
\* output file holds the whole patched file returns the status of the scan.
C15_TransferToEnd ==
    (pc = "exit" /\ fileOut # NULL /\ LastStep = "Written"
        /\ fileOut.mem = Patched)
    => code = ret

\* C17: on every exit path the strings table and the names table have been
\* freed: no buffer that was allocated is still held when the tool returns.
C17_ResourceDiscipline ==
    pc = "exit" => (heap.strtab # "live" /\ heap.shstrtab # "live")

\* C20: for every section header iterated by elf_find_strings_section, the
\* name index used to read the names table is strictly less than the length
\* of the names table, in files of either endianness.
C20_NameLookupInBounds ==
    \A k \in 1..Len(lookup) : lookup[k].index < lookup[k].len

\* C14: read_word consumes exactly 4 bytes into the 32-bit member when class
\* is 1 and exactly 8 bytes into the 64-bit member otherwise, so the value
\* and the stream position after a call are determined by the stream and
\* the class (and it reads nothing it reports when the bytes are missing).
C14_ReadWordByClass ==
    pc = "returned" =>
        LET n == IF loc.class = 1 THEN 4 ELSE 8 IN
        IF Len(fileIn.bytes) >= n
        THEN /\ ret = 1
             /\ fileIn.pos = n
             /\ data = SubSeq(fileIn.bytes, 1, n) \o SubSeq(orig, n + 1, 8)
        ELSE ret = 0

\* the error kinds the claim names, as the return statements of the code
ErrorKinds ==
    {"header-read", "section-table-seek", "names-alloc", "names-read",
     "section-not-found", "strings-alloc", "strings-read", "bad-signature",
     "unrecognized-format", "path-collision"}

\* C12: every error kind is reported with its own return code: two runs that
\* end with the same code ended for the same kind of error, and no error
\* kind is reported with a scan result (0, 1 or 2).
C12_DistinctCodes ==
    (pc = "exit" /\ site \in ErrorKinds) =>
        /\ code \notin {0, 1, 2}
        /\ (prev # <<>> /\ prev[1] \in ErrorKinds /\ prev[2] = code)
               => prev[1] = site

\* C11: when a replacement completes, the resulting file (the output file,
\* or the input file in same-file mode) has the length of the original input
\* and equals it at every position outside the section; in same-file mode
\* no byte outside the section is ever written; in listing mode no output
\* file exists and the input is never written.
C11_FilePreserved ==
    /\ (pc = "exit" /\ LastStep = "Done" /\ argv.replace) =>
           LET result == IF fileOut # NULL THEN fileOut.mem ELSE fileIn.bytes
           IN  /\ Len(result) = Len(disk)
               /\ \A x \in 0..(Len(disk) - 1) :
                      x \notin SectionRange => result[x + 1] = disk[x + 1]
    /\ (argv.replace /\ fileOut = NULL) => fileIn.wrote \subseteq SectionRange
    /\ ~argv.replace =>
           /\ fileOut = NULL
           /\ fileIn.wrote = {}
           /\ fileIn.bytes \in {<<>>, disk}

\* a separate-output run on a file longer than two chunks that changed the
\* section, and a same-file run that changed it
C11_Witness ==
    /\ pc = "exit" /\ LastStep = "Done" /\ code = 0
    /\ \/ fileOut # NULL /\ fileOut.mem # disk /\ Len(disk) > 2 * ChunkSize
       \/ fileOut = NULL /\ fileIn.bytes # disk /\ fileIn.wrote # {}

Orders ==
    { <<"Start", "HeaderParsed", "PrefixCopied", "SectionLoaded",
        "Substituted", "Written", "Done">>,
      <<"Start", "HeaderParsed", "SectionLoaded", "Substituted", "Written",
        "Done">>,
      <<"Start", "HeaderParsed", "SectionLoaded", "Listed", "Done">> }

IsPrefix(s, o) == Len(s) <= Len(o) /\ s = SubSeq(o, 1, Len(s))

\* C16: the steps of a run occur only in the order header parse, prefix copy
\* (separate-output mode only, and always there), section load, substitute
\* or list, write-back, done; a step that fails is the last one, the run
\* returns a non-zero code, and no byte of the section has been written
\* after a failed load.
C16_StepOrder ==
    /\ \E o \in Orders : IsPrefix(steps, o)
    /\ Attempted("PrefixCopied") => fileOut # NULL
    /\ (Attempted("SectionLoaded") /\ fileOut # NULL)
           => Attempted("PrefixCopied")
    /\ (pc = "exit" /\ fmt # "none" /\ LastStep # "Done") => code # 0
    /\ (pc = "exit" /\ LastStep = "SectionLoaded") =>
           /\ fileIn.wrote = {}
           /\ fileOut # NULL => Len(fileOut.mem) <= loc.address

\* a separate-output run whose section load failed after the prefix copy
C16_Witness ==
    /\ pc = "exit" /\ LastStep = "SectionLoaded" /\ code = 13
    /\ fileOut # NULL /\ Len(fileOut.mem) = loc.address

====
